---- MODULE Spec2Model ----
(***************************************************************************)
(* Model of src/tree.py: the generation-level calculation                  *)
(* (calculate_generation_levels) and the add / edit / delete handlers that *)
(* maintain the in-memory dataset st.session_state.family_data.            *)
(*                                                                         *)
(* A Python dict is modelled as a function (the records) together with a   *)
(* sequence of its keys (the insertion order, which is the order a dict is *)
(* iterated in).  Python's None is the empty sequence and a present value  *)
(* x is the one-element sequence <<x>>, so that "level is None" and an     *)
(* integer level never share a representation.                             *)
(***************************************************************************)
EXTENDS Integers, Sequences, FiniteSets, TLC

\* ------------------------------------------------------------------ bounds
\* Largest number of persons in an input mapping of calculate_generation_levels.
MaxPeople == 3
\* Largest total number of identifiers listed in all parents and children
\* lists of an input mapping.
MaxEntries == 4
\* Largest number of persons added in a session (identifiers uuid4 produces).
MaxAdds == 3
\* Largest number of submissions that change the dataset in a session.
MaxOps == 4
\* Largest number of persons selected in one submission of the person form
\* (married_to, divorced_from, parents and children together).
MaxSel == 2

\* Person identifiers.  The keys of an input mapping with n persons are 1..n,
\* so every mapping has at least one identifier that is not a key (dangling).
Ids == 1..(MaxPeople + 1)

\* ------------------------------------------------------------- Python values
None == <<>>
Some(x) == <<x>>
Val(o) == o[1]

\* Starting level for root nodes.
base_level == 2

Min2(a, b) == IF a <= b THEN a ELSE b
Max2(a, b) == IF a >= b THEN a ELSE b

\* The elements of a list.
Elems(s) == {s[i] : i \in 1..Len(s)}

VARIABLES
    family_data,   \* person id -> record: the dict's values
    order,         \* the dict's keys in iteration (insertion) order
    pc,            \* position inside calculate_generation_levels
    queue,         \* the worklist of calculate_generation_levels
    input,         \* the mapping as it was when the current call started
    enqueued,      \* every identifier appended to the worklist in this call, in order
    run,           \* number of the current call on this mapping
    first_result,  \* the mapping the first call returned
    mode,          \* the "mode_radio" widget: "Add New Person" or "Edit Existing Person"
    edit_mode_selected_id,  \* st.session_state.edit_mode_selected_id ("" is None)
    uuids,         \* number of identifiers uuid.uuid4() has produced
    ops,           \* number of submissions that changed the dataset
    calc_arg,      \* the relationships of the mapping a handler last passed to
                   \* calculate_generation_levels
    store,         \* the mapping save_family_data last wrote
    error,         \* the st.error message of the last submission ("" when none)
    last_op        \* the last submission that changed the dataset: its kind
                   \* ("add", "edit", "delete"; "none" before the first) and person

calcVars == <<pc, queue, input, enqueued, run, first_result>>
formVars == <<mode, edit_mode_selected_id, uuids, ops, calc_arg, store, error, last_op>>
vars == <<family_data, order, calcVars, formVars>>

\* ------------------------------------------------ calculate_generation_levels
\* ResetLevels with the reset left out.
ResetLevels_Keep(fd) == fd

\* ResetLevels replacing each record by a fresh one instead of clearing its
\* level field.
ResetLevels_Replace(fd) ==
    [p \in DOMAIN fd |->
        [parents |-> <<>>, children |-> <<>>, married_to |-> None,
         divorced_from |-> None, level |-> None]]

\* Lines 126-127: every person's level is cleared.
ResetLevels(fd) == [p \in DOMAIN fd |-> [fd[p] EXCEPT !.level = None]]

\* IsRoot holding as soon as one listed parent is no key.
IsRoot_AnyAbsent(fd, pid) ==
    \/ fd[pid].parents = <<>>
    \/ \E i \in 1..Len(fd[pid].parents) : fd[pid].parents[i] \notin DOMAIN fd

\* IsRoot without the test for parents that are no keys.
IsRoot_NoParentsListed(fd, pid) == fd[pid].parents = <<>>

\* Line 135: no parents listed, or no listed parent is a key of the mapping.
IsRoot(fd, pid) ==
    \/ fd[pid].parents = <<>>
    \/ \A i \in 1..Len(fd[pid].parents) : fd[pid].parents[i] \notin DOMAIN fd

\* initial_roots in the reverse of the iteration order.
initial_roots_Reversed(fd, ord) ==
    LET roots == SelectSeq(ord, LAMBDA pid : IsRoot(fd, pid))
    IN [i \in 1..Len(roots) |-> roots[Len(roots) + 1 - i]]

\* Lines 133-136: the roots, in the iteration order of the mapping.
initial_roots(fd, ord) == SelectSeq(ord, LAMBDA pid : IsRoot(fd, pid))

\* SeedRoots giving the i-th root the level base_level + i.
RECURSIVE SeedRoots_ByPosition(_, _, _)
SeedRoots_ByPosition(st, roots, i) ==
    IF i > Len(roots) THEN st
    ELSE LET root_id == roots[i] IN
         IF st.fd[root_id].level = None
         THEN SeedRoots_ByPosition(
                [fd |-> [st.fd EXCEPT ![root_id].level = Some(base_level + i)],
                 queue |-> Append(st.queue, root_id)], roots, i + 1)
         ELSE SeedRoots_ByPosition(st, roots, i + 1)

\* Lines 138-141: the roots that hold no level get the base level and are
\* appended to the worklist.  st = [fd, queue].
RECURSIVE SeedRoots(_, _, _)
SeedRoots(st, roots, i) ==
    IF i > Len(roots) THEN st
    ELSE LET root_id == roots[i] IN
         IF st.fd[root_id].level = None
         THEN SeedRoots([fd |-> [st.fd EXCEPT ![root_id].level = Some(base_level)],
                         queue |-> Append(st.queue, root_id)], roots, i + 1)
         ELSE SeedRoots(st, roots, i + 1)

\* RelaxChildren putting a child on the worklist again when its level is
\* updated.
RECURSIVE RelaxChildren_Requeue(_, _, _, _)
RelaxChildren_Requeue(st, current_level, children, i) ==
    IF i > Len(children) THEN st
    ELSE LET child_id == children[i] IN
         IF child_id \in DOMAIN st.fd
         THEN IF st.fd[child_id].level = None
              THEN RelaxChildren_Requeue(
                     [fd |-> [st.fd EXCEPT ![child_id].level = Some(current_level + 1)],
                      queue |-> Append(st.queue, child_id)],
                     current_level, children, i + 1)
              ELSE RelaxChildren_Requeue(
                     [fd |-> [st.fd EXCEPT ![child_id].level =
                                 Some(Min2(Val(st.fd[child_id].level), current_level + 1))],
                      queue |-> Append(st.queue, child_id)],
                     current_level, children, i + 1)
         ELSE RelaxChildren_Requeue(st, current_level, children, i + 1)

\* RelaxChildren giving a child reached first the level of its parent.
RECURSIVE RelaxChildren_SameLevel(_, _, _, _)
RelaxChildren_SameLevel(st, current_level, children, i) ==
    IF i > Len(children) THEN st
    ELSE LET child_id == children[i] IN
         IF child_id \in DOMAIN st.fd
         THEN IF st.fd[child_id].level = None
              THEN RelaxChildren_SameLevel(
                     [fd |-> [st.fd EXCEPT ![child_id].level = Some(current_level)],
                      queue |-> Append(st.queue, child_id)],
                     current_level, children, i + 1)
              ELSE RelaxChildren_SameLevel(
                     [fd |-> [st.fd EXCEPT ![child_id].level =
                                 Some(Min2(Val(st.fd[child_id].level), current_level + 1))],
                      queue |-> st.queue],
                     current_level, children, i + 1)
         ELSE RelaxChildren_SameLevel(st, current_level, children, i + 1)

\* RelaxChildren placing a child two levels below the current person.
RECURSIVE RelaxChildren_TwoDown(_, _, _, _)
RelaxChildren_TwoDown(st, current_level, children, i) ==
    IF i > Len(children) THEN st
    ELSE LET child_id == children[i] IN
         IF child_id \in DOMAIN st.fd
         THEN IF st.fd[child_id].level = None
              THEN RelaxChildren_TwoDown(
                     [fd |-> [st.fd EXCEPT ![child_id].level = Some(current_level + 2)],
                      queue |-> Append(st.queue, child_id)],
                     current_level, children, i + 1)
              ELSE RelaxChildren_TwoDown(
                     [fd |-> [st.fd EXCEPT ![child_id].level =
                                 Some(Min2(Val(st.fd[child_id].level), current_level + 2))],
                      queue |-> st.queue],
                     current_level, children, i + 1)
         ELSE RelaxChildren_TwoDown(st, current_level, children, i + 1)

\* Lines 148-155: propagate current_level to the listed children.
RECURSIVE RelaxChildren(_, _, _, _)
RelaxChildren(st, current_level, children, i) ==
    IF i > Len(children) THEN st
    ELSE LET child_id == children[i] IN
         IF child_id \in DOMAIN st.fd
         THEN IF st.fd[child_id].level = None
              THEN RelaxChildren(
                     [fd |-> [st.fd EXCEPT ![child_id].level = Some(current_level + 1)],
                      queue |-> Append(st.queue, child_id)],
                     current_level, children, i + 1)
              ELSE RelaxChildren(
                     [fd |-> [st.fd EXCEPT ![child_id].level =
                                 Some(Min2(Val(st.fd[child_id].level), current_level + 1))],
                      queue |-> st.queue],
                     current_level, children, i + 1)
         ELSE RelaxChildren(st, current_level, children, i + 1)

\* RelaxParents doing nothing.
RelaxParents_None(st, current_level, parents, i) == st

\* RelaxParents without the max update of a parent that holds a level.
RECURSIVE RelaxParents_NoMax(_, _, _, _)
RelaxParents_NoMax(st, current_level, parents, i) ==
    IF i > Len(parents) THEN st
    ELSE LET parent_id == parents[i] IN
         IF parent_id \in DOMAIN st.fd /\ st.fd[parent_id].level = None
         THEN RelaxParents_NoMax(
                [fd |-> [st.fd EXCEPT ![parent_id].level = Some(current_level - 1)],
                 queue |-> Append(st.queue, parent_id)],
                current_level, parents, i + 1)
         ELSE RelaxParents_NoMax(st, current_level, parents, i + 1)

\* Lines 158-165: propagate current_level to the listed parents.
RECURSIVE RelaxParents(_, _, _, _)
RelaxParents(st, current_level, parents, i) ==
    IF i > Len(parents) THEN st
    ELSE LET parent_id == parents[i] IN
         IF parent_id \in DOMAIN st.fd
         THEN IF st.fd[parent_id].level = None
              THEN RelaxParents(
                     [fd |-> [st.fd EXCEPT ![parent_id].level = Some(current_level - 1)],
                      queue |-> Append(st.queue, parent_id)],
                     current_level, parents, i + 1)
              ELSE RelaxParents(
                     [fd |-> [st.fd EXCEPT ![parent_id].level =
                                 Some(Max2(Val(st.fd[parent_id].level), current_level - 1))],
                      queue |-> st.queue],
                     current_level, parents, i + 1)
         ELSE RelaxParents(st, current_level, parents, i + 1)

\* RelaxNode without the loop over the children.
RelaxNode_SkipChildren(st) ==
    LET current_id == Head(st.queue)
        current_level == Val(st.fd[current_id].level)
        popped == [fd |-> st.fd, queue |-> Tail(st.queue)]
    IN RelaxParents(popped, current_level, st.fd[current_id].parents, 1)

\* Lines 144-165: one iteration of the while loop.  The lists are read from
\* the mapping when their for loop starts; the level of current_id is read once.
RelaxNode(st) ==
    LET current_id == Head(st.queue)
        current_level == Val(st.fd[current_id].level)
        popped == [fd |-> st.fd, queue |-> Tail(st.queue)]
        afterChildren == RelaxChildren(popped, current_level,
                                       st.fd[current_id].children, 1)
    IN RelaxParents(afterChildren, current_level,
                    afterChildren.fd[current_id].parents, 1)

\* Lines 143-165: the while loop, run until the worklist is empty.
RECURSIVE RelaxAll(_)
RelaxAll(st) == IF st.queue = <<>> THEN st ELSE RelaxAll(RelaxNode(st))

\* OrphanFallback left out.
OrphanFallback_Skip(fd) == fd

\* Lines 168-170: persons still without a level get the base level.
OrphanFallback(fd) ==
    [p \in DOMAIN fd |->
        IF fd[p].level = None THEN [fd[p] EXCEPT !.level = Some(base_level)] ELSE fd[p]]

\* Line 173: the minimum level of the mapping.
min_level(fd) ==
    CHOOSE m \in {Val(fd[p].level) : p \in DOMAIN fd} :
        \A p \in DOMAIN fd : m <= Val(fd[p].level)

\* Normalize without the subtraction.
Normalize_NoShift(fd) == fd

\* Lines 173-175: subtract the minimum level from every level.
Normalize(fd) ==
    LET m == min_level(fd) IN
    [p \in DOMAIN fd |-> [fd[p] EXCEPT !.level = Some(Val(fd[p].level) - m)]]

\* Lines 129-141: reset, root detection and seeding.
Seeded(fd, ord) ==
    SeedRoots([fd |-> ResetLevels(fd), queue |-> <<>>], initial_roots(fd, ord), 1)

\* Lines 121-177: the whole function, as the handlers call it.
calculate_generation_levels(fd, ord) ==
    IF DOMAIN fd = {} THEN fd
    ELSE Normalize(OrphanFallback(RelaxAll(Seeded(fd, ord)).fd))

\* --------------------------------------------------------------- the inputs
\* A record as load_family_data completes it (lines 74-79).
BlankPerson ==
    [parents |-> <<>>, children |-> <<>>, married_to |-> None,
     divorced_from |-> None, level |-> Some(0)]

\* The sum of the first k numbers of a sequence of numbers.
RECURSIVE SumTo(_, _)
SumTo(lens, k) == IF k = 0 THEN 0 ELSE lens[k] + SumTo(lens, k - 1)

\* The i-th of the lists of lengths lens laid end to end in flat.
Slice(lens, flat, i) == SubSeq(flat, SumTo(lens, i - 1) + 1, SumTo(lens, i))

\* The mapping over the keys 1..n in which person p lists the parents
\* Slice(2p-1) and the children Slice(2p).
BuildInput(n, lens, flat) ==
    [p \in 1..n |-> [BlankPerson EXCEPT !.parents = Slice(lens, flat, 2 * p - 1),
                                         !.children = Slice(lens, flat, 2 * p)]]

\* The same mapping with every person married to the next key (the last to
\* the first) and divorced from the key before it (the first from an
\* identifier that is no key).
WithSpouses(fd) ==
    LET n == Cardinality(DOMAIN fd) IN
    [p \in DOMAIN fd |-> [fd[p] EXCEPT !.married_to = Some((p % n) + 1),
                                       !.divorced_from = Some(IF p = 1 THEN n + 1 ELSE p - 1)]]

\* fd is a mapping over the keys 1..n, n <= MaxPeople, whose parents and
\* children lists hold at most MaxEntries identifiers in total, each any
\* identifier (a key, the person itself or an identifier that is no key), in
\* any order and with repetitions; married_to and divorced_from, which the
\* function never reads, are all None or all set.
IsInput(fd) ==
    \E n \in 0..MaxPeople :
        \E lens \in [1..(2 * n) -> 0..MaxEntries] :
            /\ SumTo(lens, 2 * n) <= MaxEntries
            /\ \E flat \in [1..SumTo(lens, 2 * n) -> Ids] :
                   \/ fd = BuildInput(n, lens, flat)
                   \/ n > 0 /\ fd = WithSpouses(BuildInput(n, lens, flat))

\* The keys 1..n in order.
KeyOrder(fd) == [i \in 1..Cardinality(DOMAIN fd) |-> i]

\* ------------------------------------------------------------------ actions
Init ==
    /\ IsInput(family_data)
    /\ order = KeyOrder(family_data)
    /\ pc = "start"
    /\ queue = <<>>
    /\ input = family_data
    /\ enqueued = <<>>
    /\ run = 1
    /\ first_result = <<>>
    /\ mode = "Add New Person"
    /\ edit_mode_selected_id = None
    /\ uuids = 0
    /\ ops = 0
    /\ calc_arg = <<>>
    /\ store = <<>>
    /\ error = ""
    /\ last_op = [kind |-> "none", id |-> 0]

\* Lines 122-123: an empty mapping is returned as it is.
ReturnEmpty ==
    /\ pc = "start"
    /\ DOMAIN family_data = {}
    /\ pc' = "done"
    /\ UNCHANGED <<family_data, order, queue, input, enqueued, run, first_result, formVars>>

\* Lines 125-141: reset the levels, find the roots, seed the worklist.
Seed ==
    /\ pc = "start"
    /\ DOMAIN family_data # {}
    /\ LET st == Seeded(family_data, order) IN
        /\ family_data' = st.fd
        /\ queue' = st.queue
        /\ enqueued' = st.queue
    /\ input' = family_data
    /\ pc' = "loop"
    /\ UNCHANGED <<order, run, first_result, formVars>>

\* Lines 143-165: one iteration of the while loop.
Relax ==
    /\ pc = "loop"
    /\ queue # <<>>
    /\ LET st == RelaxNode([fd |-> family_data, queue |-> queue]) IN
        /\ family_data' = st.fd
        /\ queue' = st.queue
        /\ enqueued' = enqueued \o SubSeq(st.queue, Len(queue), Len(st.queue))
    /\ UNCHANGED <<order, pc, input, run, first_result, formVars>>

\* Lines 167-170: the loop has ended; the orphan fallback.
Fallback ==
    /\ pc = "loop"
    /\ queue = <<>>
    /\ family_data' = OrphanFallback(family_data)
    /\ pc' = "normalize"
    /\ UNCHANGED <<order, queue, input, enqueued, run, first_result, formVars>>

\* Lines 172-177: normalization and return.
Finish ==
    /\ pc = "normalize"
    /\ family_data' = Normalize(family_data)
    /\ pc' = "done"
    /\ first_result' = IF run = 1 THEN Normalize(family_data) ELSE first_result
    /\ UNCHANGED <<order, queue, input, enqueued, run, formVars>>

\* The function is called again on the mapping it returned (as lines 182,
\* 711 and 774 do on the session's dataset).
CallAgain ==
    /\ pc = "done"
    /\ run = 1
    /\ DOMAIN family_data # {}
    /\ run' = 2
    /\ pc' = "start"
    /\ queue' = <<>>
    /\ enqueued' = <<>>
    /\ UNCHANGED <<family_data, order, input, first_result, formVars>>

Next ==
    \/ ReturnEmpty
    \/ Seed
    \/ Relax
    \/ Fallback
    \/ Finish
    \/ CallAgain

Spec == Init /\ [][Next]_vars

\* ------------------------------------------- calls on irregular mappings
\* The session state around a call of the function, before anything has been
\* submitted.
CallInit ==
    /\ order = KeyOrder(family_data)
    /\ pc = "start"
    /\ queue = <<>>
    /\ input = family_data
    /\ enqueued = <<>>
    /\ run = 1
    /\ first_result = <<>>
    /\ mode = "Add New Person"
    /\ edit_mode_selected_id = None
    /\ uuids = 0
    /\ ops = 0
    /\ calc_arg = <<>>
    /\ store = <<>>
    /\ error = ""
    /\ last_op = [kind |-> "none", id |-> 0]

\* The assignments of four roles to the keys 1..4.
Roles == {f \in [1..4 -> 1..4] : \A i, j \in 1..4 : f[i] = f[j] => i = j}

\* The chain a -> b -> c -> d with bidirectional links, but for d, which
\* lists the parents d_parents; b does not list d as a child.
LateParent(a, b, c, d, d_parents) ==
    [p \in {a, b, c, d} |->
        IF p = a THEN [BlankPerson EXCEPT !.children = <<b>>]
        ELSE IF p = b THEN [BlankPerson EXCEPT !.parents = <<a>>, !.children = <<c>>]
        ELSE IF p = c THEN [BlankPerson EXCEPT !.parents = <<b>>, !.children = <<d>>]
        ELSE [BlankPerson EXCEPT !.parents = d_parents]]

\* The function is called on a chain of four persons whose last person lists
\* its grandparent as a parent, alone or next to its parent.
LateParentInit ==
    /\ \E f \in Roles :
           \E d_parents \in {<<f[2]>>, <<f[3], f[2]>>, <<f[2], f[3]>>} :
               family_data = LateParent(f[1], f[2], f[3], f[4], d_parents)
    /\ CallInit

\* The steps of a call on a mapping that is not empty.
CallNext ==
    \/ Seed
    \/ Relax
    \/ Fallback
    \/ Finish
    \/ CallAgain

LateParentSpec == LateParentInit /\ [][CallNext]_vars

\* A list in reverse order.
Reverse(list) == [i \in 1..Len(list) |-> list[Len(list) + 1 - i]]

\* The mapping with every parents and children list in reverse order.
ReversedLists(fd) ==
    [p \in DOMAIN fd |-> [fd[p] EXCEPT !.parents = Reverse(@),
                                       !.children = Reverse(@)]]

\* r -> m -> n -> x and r -> x with bidirectional links: x has the parents n
\* and r, at depths 2 and 0.
Diamond(r, m, n, x) ==
    [p \in {r, m, n, x} |->
        IF p = r THEN [BlankPerson EXCEPT !.children = <<x, m>>]
        ELSE IF p = m THEN [BlankPerson EXCEPT !.parents = <<r>>, !.children = <<n>>]
        ELSE IF p = n THEN [BlankPerson EXCEPT !.parents = <<m>>, !.children = <<x>>]
        ELSE [BlankPerson EXCEPT !.parents = <<n, r>>]]

\* The function is called on such a mapping, its lists in one order or the
\* other.
DiamondInit ==
    /\ \E f \in Roles :
           \/ family_data = Diamond(f[1], f[2], f[3], f[4])
           \/ family_data = ReversedLists(Diamond(f[1], f[2], f[3], f[4]))
    /\ CallInit

DiamondSpec == DiamondInit /\ [][CallNext]_vars

\* ------------------------------------------------------------- definitions
Keys(fd) == DOMAIN fd

\* The levels of a mapping.
Levels(fd) == [p \in DOMAIN fd |-> fd[p].level]

\* Everything of a mapping but the levels.
Relationships(fd) ==
    [p \in DOMAIN fd |-> [parents |-> fd[p].parents, children |-> fd[p].children,
                          married_to |-> fd[p].married_to,
                          divorced_from |-> fd[p].divorced_from]]

\* A list without the identifiers that are no key of the mapping.
OnlyKeys(fd, list) == SelectSeq(list, LAMBDA t : t \in DOMAIN fd)

\* The mapping with every identifier that is no key removed from all parents
\* and children lists.
WithoutDangling(fd) ==
    [p \in DOMAIN fd |-> [fd[p] EXCEPT !.parents = OnlyKeys(fd, @),
                                       !.children = OnlyKeys(fd, @)]]

\* The mapping with every level unassigned.
Unassigned(fd) == [p \in DOMAIN fd |-> [fd[p] EXCEPT !.level = None]]

HasDangling(fd) ==
    \E p \in DOMAIN fd : \E t \in Elems(fd[p].parents) \cup Elems(fd[p].children) :
        t \notin DOMAIN fd

HasSelfLoop(fd) ==
    \E p \in DOMAIN fd : p \in Elems(fd[p].parents) \cup Elems(fd[p].children)

\* Two persons that list each other as parent.
HasParentCycle(fd) ==
    \E p, q \in DOMAIN fd :
        p # q /\ q \in Elems(fd[p].parents) /\ p \in Elems(fd[q].parents)

\* B is in A's children if and only if A is in B's parents, for all keys A, B.
Bidirectional(fd) ==
    \A a, b \in DOMAIN fd :
        b \in Elems(fd[a].children) <=> a \in Elems(fd[b].parents)

\* The ancestors of p reached in at most k steps along parents lists.
RECURSIVE Ancestors(_, _, _)
Ancestors(fd, p, k) ==
    IF k = 0 THEN {}
    ELSE LET direct == Elems(fd[p].parents) \cap DOMAIN fd IN
         direct \cup UNION {Ancestors(fd, q, k - 1) : q \in direct}

\* A forest: links bidirectional, no dangling identifier, at most one parent
\* each, nobody their own ancestor.
IsForest(fd) ==
    /\ Bidirectional(fd)
    /\ ~HasDangling(fd)
    /\ \A p \in DOMAIN fd : Len(fd[p].parents) <= 1
    /\ \A p \in DOMAIN fd : p \notin Ancestors(fd, p, Cardinality(DOMAIN fd))

\* ------------------------------------------------------ the form handlers
\* list.remove(x): the list without its first x.
RemoveFirst(list, x) ==
    LET i == CHOOSE k \in 1..Len(list) :
                 list[k] = x /\ \A j \in 1..(k - 1) : list[j] # x
    IN SubSeq(list, 1, i - 1) \o SubSeq(list, i + 1, Len(list))

\* available_relationship_options offering the person being edited too.
available_relationship_options_All(fd, person_id_to_process) == DOMAIN fd

\* Lines 601-602: the persons the form offers: every key but the person
\* being edited.
available_relationship_options(fd, person_id_to_process) ==
    {pid \in DOMAIN fd : Some(pid) # person_id_to_process}

\* What a multiselect returns: the chosen options in the order chosen, none
\* twice.
Selections(options) ==
    {sel \in UNION {[1..k -> options] : k \in 0..MaxSel} :
        \A i, j \in 1..Len(sel) : sel[i] = sel[j] => i = j}

\* What a selectbox over [""] + options returns ("" is None).
Choice(options) == {None} \cup {Some(x) : x \in options}

\* Line 673: family_data[pid] = rec; a new key goes to the end of the dict.
SetItem(fd, pid, rec) ==
    [q \in DOMAIN fd \cup {pid} |-> IF q = pid THEN rec ELSE fd[q]]

SetOrder(ord, pid) == IF pid \in Elems(ord) THEN ord ELSE Append(ord, pid)

\* Lines 682-687: the persons no longer listed as parents lose pid from
\* their children, the persons newly listed get it appended.
UpdateParentsChildren(fd, pid, old_parents, parents) ==
    [q \in DOMAIN fd |->
        IF q \in Elems(old_parents) \ Elems(parents) /\ pid \in Elems(fd[q].children)
        THEN [fd[q] EXCEPT !.children = RemoveFirst(@, pid)]
        ELSE IF q \in Elems(parents) \ Elems(old_parents) /\ pid \notin Elems(fd[q].children)
        THEN [fd[q] EXCEPT !.children = Append(@, pid)]
        ELSE fd[q]]

\* UpdateChildrenParents left out: the children's records are not touched.
UpdateChildrenParents_Skip(fd, pid, old_children, children) == fd

\* Lines 690-695: the same for the children's parents lists.
UpdateChildrenParents(fd, pid, old_children, children) ==
    [q \in DOMAIN fd |->
        IF q \in Elems(old_children) \ Elems(children) /\ pid \in Elems(fd[q].parents)
        THEN [fd[q] EXCEPT !.parents = RemoveFirst(@, pid)]
        ELSE IF q \in Elems(children) \ Elems(old_children) /\ pid \notin Elems(fd[q].parents)
        THEN [fd[q] EXCEPT !.parents = Append(@, pid)]
        ELSE fd[q]]

\* Lines 698-702: the old spouse that points back is cleared; the chosen
\* spouse and the person point at each other.
UpdateMarried(fd, pid, old_married_to, married_to) ==
    LET cleared ==
            IF /\ old_married_to # None
               /\ Val(old_married_to) \in DOMAIN fd
               /\ fd[Val(old_married_to)].married_to = Some(pid)
            THEN [fd EXCEPT ![Val(old_married_to)].married_to = None]
            ELSE fd
    IN IF married_to # None /\ Val(married_to) \in DOMAIN cleared
       THEN [cleared EXCEPT ![Val(married_to)].married_to = Some(pid),
                            ![pid].married_to = married_to]
       ELSE cleared

\* Lines 705-709: the same for divorced_from.
UpdateDivorced(fd, pid, old_divorced_from, divorced_from) ==
    LET cleared ==
            IF /\ old_divorced_from # None
               /\ Val(old_divorced_from) \in DOMAIN fd
               /\ fd[Val(old_divorced_from)].divorced_from = Some(pid)
            THEN [fd EXCEPT ![Val(old_divorced_from)].divorced_from = None]
            ELSE fd
    IN IF divorced_from # None /\ Val(divorced_from) \in DOMAIN cleared
       THEN [cleared EXCEPT ![Val(divorced_from)].divorced_from = Some(pid),
                            ![pid].divorced_from = divorced_from]
       ELSE cleared

\* Lines 650-709: the dataset after the record of pid is replaced and the
\* records of the others are synchronised, before the levels are recomputed.
ApplySubmission(fd, pid, married_to, divorced_from, parents, children) ==
    LET known == pid \in DOMAIN fd
        old_parents == IF known THEN fd[pid].parents ELSE <<>>
        old_children == IF known THEN fd[pid].children ELSE <<>>
        old_married_to == IF known THEN fd[pid].married_to ELSE None
        old_divorced_from == IF known THEN fd[pid].divorced_from ELSE None
        new_person_data ==
            [parents |-> parents, children |-> children, married_to |-> married_to,
             divorced_from |-> divorced_from, level |-> Some(0)]
        fd1 == SetItem(fd, pid, new_person_data)
        fd2 == UpdateParentsChildren(fd1, pid, old_parents, parents)
        fd3 == UpdateChildrenParents(fd2, pid, old_children, children)
        fd4 == UpdateMarried(fd3, pid, old_married_to, married_to)
    IN UpdateDivorced(fd4, pid, old_divorced_from, divorced_from)

\* ScrubReferences clearing the lists but not married_to and divorced_from.
ScrubReferences_ListsOnly(fd, person_to_delete_id) ==
    [p_id \in DOMAIN fd |->
        IF p_id = person_to_delete_id THEN fd[p_id]
        ELSE [fd[p_id] EXCEPT
                !.parents = IF person_to_delete_id \in Elems(@)
                            THEN RemoveFirst(@, person_to_delete_id) ELSE @,
                !.children = IF person_to_delete_id \in Elems(@)
                             THEN RemoveFirst(@, person_to_delete_id) ELSE @]]

\* SubmitResult recomputing the levels before the submission is applied.
SubmitResult_LevelsFirst(fd, ord, pid, married_to, divorced_from, parents, children) ==
    ApplySubmission(calculate_generation_levels(fd, ord), pid,
                    married_to, divorced_from, parents, children)

\* Lines 650-711: the dataset a submission leaves: the record replaced, the
\* other records synchronised, then the levels recomputed over the whole of it.
SubmitResult(fd, ord, pid, married_to, divorced_from, parents, children) ==
    calculate_generation_levels(
        ApplySubmission(fd, pid, married_to, divorced_from, parents, children),
        SetOrder(ord, pid))

\* Lines 754-769: every other record loses the deleted identifier from its
\* children and parents (list.remove) and from married_to and divorced_from.
ScrubReferences(fd, person_to_delete_id) ==
    [p_id \in DOMAIN fd |->
        IF p_id = person_to_delete_id THEN fd[p_id]
        ELSE [parents |-> IF person_to_delete_id \in Elems(fd[p_id].parents)
                          THEN RemoveFirst(fd[p_id].parents, person_to_delete_id)
                          ELSE fd[p_id].parents,
              children |-> IF person_to_delete_id \in Elems(fd[p_id].children)
                           THEN RemoveFirst(fd[p_id].children, person_to_delete_id)
                           ELSE fd[p_id].children,
              married_to |-> IF fd[p_id].married_to = Some(person_to_delete_id)
                             THEN None ELSE fd[p_id].married_to,
              divorced_from |-> IF fd[p_id].divorced_from = Some(person_to_delete_id)
                                THEN None ELSE fd[p_id].divorced_from,
              level |-> fd[p_id].level]]

\* Line 771: del family_data[person_to_delete_id].
DelItem(fd, pid) == [q \in DOMAIN fd \ {pid} |-> fd[q]]

DelOrder(ord, pid) == SelectSeq(ord, LAMBDA q : q # pid)

\* ApplyDelete removing the person and leaving every reference to it.
ApplyDelete_NoScrub(fd, person_to_delete_id) == DelItem(fd, person_to_delete_id)

\* Lines 754-771: the dataset after the delete, before the levels are
\* recomputed.
ApplyDelete(fd, person_to_delete_id) ==
    DelItem(ScrubReferences(fd, person_to_delete_id), person_to_delete_id)

\* The session starts on an empty dataset (lines 180-194).
FormInit ==
    /\ family_data = <<>>
    /\ order = <<>>
    /\ pc = "form"
    /\ queue = <<>>
    /\ input = <<>>
    /\ enqueued = <<>>
    /\ run = 0
    /\ first_result = <<>>
    /\ mode = "Add New Person"
    /\ edit_mode_selected_id = None
    /\ uuids = 0
    /\ ops = 0
    /\ calc_arg = <<>>
    /\ store = <<>>
    /\ error = ""
    /\ last_op = [kind |-> "none", id |-> 0]

\* Lines 476-496: the mode radio is set; the script run that follows clears
\* the edit selection in add mode and on an empty dataset.
ChooseMode ==
    /\ \E m \in {"Add New Person", "Edit Existing Person"} :
        /\ mode' = m
        /\ edit_mode_selected_id' =
              IF m = "Add New Person" \/ DOMAIN family_data = {}
              THEN None ELSE edit_mode_selected_id
    /\ error' = ""
    /\ UNCHANGED <<family_data, order, calcVars, uuids, ops, calc_arg, store, last_op>>

\* Lines 222-224, 498-505: a person (or nobody) is picked in the edit
\* selectbox.
SelectEdit ==
    /\ mode = "Edit Existing Person"
    /\ DOMAIN family_data # {}
    /\ \E selected_id \in Choice(DOMAIN family_data) :
          edit_mode_selected_id' = selected_id
    /\ error' = ""
    /\ UNCHANGED <<family_data, order, calcVars, mode, uuids, ops, calc_arg, store, last_op>>

\* Rejection without the given-name check of the edit mode.
Rejection_NoNameCheckOnEdit(given_name) ==
    IF mode = "Add New Person"
    THEN IF given_name = "" THEN "Given Name is required to add a new person." ELSE ""
    ELSE IF edit_mode_selected_id = None
         THEN "Please select a person to edit using the dropdown above the form."
         ELSE ""

\* Lines 634-647: the message of the check that rejects the submission, ""
\* when it passes.
Rejection(given_name) ==
    IF mode = "Add New Person"
    THEN IF given_name = "" THEN "Given Name is required to add a new person." ELSE ""
    ELSE IF edit_mode_selected_id = None
         THEN "Please select a person to edit using the dropdown above the form."
         ELSE IF given_name = "" THEN "Given Name is required to update a person." ELSE ""

\* Lines 601-727: the person form is submitted with the given name typed in.
SubmitPersonWith(given_name) ==
        IF Rejection(given_name) # ""
        THEN /\ error' = Rejection(given_name)
             /\ UNCHANGED <<family_data, order, calcVars, mode,
                            edit_mode_selected_id, uuids, ops, calc_arg, store, last_op>>
        ELSE /\ ops < MaxOps
             /\ mode = "Add New Person" => uuids < MaxAdds
             /\ \E married_to, divorced_from \in
                    Choice(available_relationship_options(family_data,
                                                          edit_mode_selected_id)) :
                \E parents, children \in
                    Selections(available_relationship_options(family_data,
                                                              edit_mode_selected_id)) :
                  /\ Len(married_to) + Len(divorced_from)
                        + Len(parents) + Len(children) <= MaxSel
                  /\ LET person_id_to_process ==
                             IF mode = "Add New Person" THEN uuids + 1
                             ELSE Val(edit_mode_selected_id)
                         fd == ApplySubmission(family_data, person_id_to_process,
                                               married_to, divorced_from,
                                               parents, children)
                         ord == SetOrder(order, person_id_to_process)
                     IN /\ calc_arg' = Relationships(fd)
                        /\ family_data' =
                              SubmitResult(family_data, order, person_id_to_process,
                                           married_to, divorced_from, parents, children)
                        /\ order' = ord
                        /\ last_op' = [kind |-> IF mode = "Add New Person"
                                                 THEN "add" ELSE "edit",
                                        id |-> person_id_to_process]
                  /\ store' = family_data'
             /\ uuids' = IF mode = "Add New Person" THEN uuids + 1 ELSE uuids
             /\ ops' = ops + 1
             /\ edit_mode_selected_id' = None
             /\ error' = ""
             /\ UNCHANGED <<calcVars, mode>>

\* Lines 536, 632-727: the person form is submitted, with or without a
\* given name.
SubmitPerson == \E given_name \in {"", "Ada"} : SubmitPersonWith(given_name)

\* Lines 737-791: the delete form is submitted.
DeletePerson ==
    /\ DOMAIN family_data # {}
    /\ \E person_to_delete_id \in Choice(DOMAIN family_data) :
        IF person_to_delete_id = None
        THEN /\ error' = "Please select a person to delete."
             /\ UNCHANGED <<family_data, order, calcVars, mode,
                            edit_mode_selected_id, uuids, ops, calc_arg, store, last_op>>
        ELSE /\ ops < MaxOps
             /\ LET fd == ApplyDelete(family_data, Val(person_to_delete_id))
                    ord == DelOrder(order, Val(person_to_delete_id))
                IN /\ calc_arg' = Relationships(fd)
                   /\ family_data' = calculate_generation_levels(fd, ord)
                   /\ order' = ord
             /\ store' = family_data'
             /\ last_op' = [kind |-> "delete", id |-> Val(person_to_delete_id)]
             /\ edit_mode_selected_id' =
                   IF edit_mode_selected_id = person_to_delete_id
                   THEN None ELSE edit_mode_selected_id
             /\ ops' = ops + 1
             /\ error' = ""
             /\ UNCHANGED <<calcVars, mode, uuids>>

FormNext ==
    \/ ChooseMode
    \/ SelectEdit
    \/ SubmitPerson
    \/ DeletePerson

FormSpec == FormInit /\ [][FormNext]_vars

\* ------------------------------------------------------------------ claims
\* C1 (completeness): once the orphan fallback has run, and so in the mapping
\* the call returns, the identifiers are exactly those of the input mapping
\* and every one of them holds an integer level, whatever the lists hold.
C1_Completeness ==
    /\ Keys(family_data) = Keys(input)
    /\ pc \in {"normalize", "done"} =>
          \A p \in Keys(family_data) :
              /\ family_data[p].level # None
              /\ Val(family_data[p].level) \in Int

\* A call on a mapping with a dangling identifier, a self-loop and a cycle
\* of parents has returned.
C1_Witness ==
    /\ pc = "done"
    /\ HasDangling(input) /\ HasSelfLoop(input) /\ HasParentCycle(input)

\* C2 (normalization): in the mapping a call on a non-empty mapping returns,
\* no level is negative and some person has level 0.
C2_MinLevelZero ==
    (pc = "done" /\ Keys(family_data) # {}) =>
        /\ \A p \in Keys(family_data) : Val(family_data[p].level) >= 0
        /\ \E p \in Keys(family_data) : Val(family_data[p].level) = 0

\* A call has returned levels that are not all the same.
C2_Witness ==
    /\ pc = "done"
    /\ \E p, q \in Keys(family_data) :
          Val(family_data[p].level) = 0 /\ Val(family_data[q].level) = 2

\* The persons a call has not yet taken off its worklist.
NotYetDequeued == Cardinality(Keys(family_data)) - (Len(enqueued) - Len(queue))

\* C3 (termination): no identifier is put on the worklist twice and the
\* worklist holds only identifiers put on it, so the insertions of a call
\* never exceed the number of persons; every iteration of the while loop
\* takes one more person off the worklist, so the loop ends after at most as
\* many iterations as there are persons, cycles, self-loops and dangling
\* identifiers included.
C3_Termination ==
    /\ [](/\ \A i, j \in 1..Len(enqueued) : enqueued[i] = enqueued[j] => i = j
          /\ Elems(enqueued) \subseteq Keys(family_data)
          /\ Len(enqueued) <= Cardinality(Keys(family_data))
          /\ queue = SubSeq(enqueued, Len(enqueued) - Len(queue) + 1, Len(enqueued))
          /\ NotYetDequeued >= 0)
    /\ [][(pc = "loop" /\ pc' = "loop") => NotYetDequeued' = NotYetDequeued - 1]_vars
    /\ [][pc = "loop" => pc' \in {"loop", "normalize"}]_vars

\* A call on a mapping with a cycle of parents and a self-loop that put every
\* person on the worklist has returned.
C3_Witness ==
    /\ pc = "done"
    /\ HasSelfLoop(input)
    /\ \E p, q \in Keys(input) :
          p # q /\ q \in Elems(input[p].parents) /\ p \in Elems(input[q].children)
             /\ q \in Elems(input[q].parents) \cup Elems(input[p].children)
    /\ Len(enqueued) = Cardinality(Keys(input)) /\ Len(enqueued) >= 3

\* C4 (dangling references): the levels a call returns are the levels the
\* function returns on the input mapping with every identifier that is no
\* key removed from all parents and children lists.
C4_DanglingIsNoEdge ==
    pc = "done" =>
        Levels(family_data) =
            Levels(calculate_generation_levels(WithoutDangling(input), order))

\* A call has returned different levels on a mapping in which a person with
\* a child lists only parents that are no keys.
C4_Witness ==
    /\ pc = "done"
    /\ \E p, q \in Keys(input) :
          /\ input[p].parents # <<>>
          /\ Elems(input[p].parents) \cap Keys(input) = {}
          /\ q \in Elems(input[p].children)
          /\ Val(family_data[q].level) = Val(family_data[p].level) + 1

\* C5 (tree case): when the input mapping is a forest, every listed child is
\* exactly one level below the parent that lists it.
C5_ForestEdges ==
    (pc = "done" /\ IsForest(input)) =>
        \A p \in Keys(family_data) : \A c \in Elems(family_data[p].children) :
            Val(family_data[c].level) = Val(family_data[p].level) + 1

\* A call on a forest with a person that has both a parent and a child (a
\* chain of three) has returned.
C5_Witness ==
    /\ pc = "done"
    /\ IsForest(input)
    /\ \E p \in Keys(input) : input[p].parents # <<>> /\ input[p].children # <<>>

\* C6 (idempotence): the second call, on the mapping the first call
\* returned, returns the same levels; and they are the levels the function
\* returns when every prior level is unassigned.
C6_Idempotent ==
    (pc = "done" /\ run = 2) =>
        /\ Levels(family_data) = Levels(first_result)
        /\ Levels(family_data) =
              Levels(calculate_generation_levels(Unassigned(input), order))

\* The second call has returned on a mapping whose prior levels (those of the
\* first call) were not all 0.
C6_Witness ==
    /\ pc = "done" /\ run = 2
    /\ \E p \in Keys(input) : Val(input[p].level) = 2
    /\ \E p \in Keys(input) : Val(input[p].level) = 1

\* C7 (frame): at every point of a call the identifiers, their order and every
\* person's parents, children, married_to and divorced_from are those of the
\* input mapping.
C7_Frame ==
    /\ Relationships(family_data) = Relationships(input)
    /\ order = KeyOrder(input)

\* A call has changed levels on a mapping with lists and spouses set.
C7_Witness ==
    /\ pc = "done"
    /\ \E p \in Keys(input) :
          /\ input[p].married_to # None /\ input[p].divorced_from # None
          /\ input[p].parents # <<>> /\ input[p].children # <<>>
          /\ family_data[p].level # input[p].level

\* No record of the mapping refers to identifier d.
NoReference(fd, d) ==
    \A p \in DOMAIN fd :
        /\ d \notin Elems(fd[p].parents) \cup Elems(fd[p].children)
        /\ fd[p].married_to # Some(d)
        /\ fd[p].divorced_from # Some(d)

\* C8 (delete scrubs first): after a delete of person D, D is no key of the
\* dataset and no remaining record refers to D; the same is true of the
\* relationships that were handed to calculate_generation_levels and of the
\* mapping that was saved.
C8_DeleteScrubs ==
    last_op.kind = "delete" =>
        /\ last_op.id \notin Keys(family_data) /\ NoReference(family_data, last_op.id)
        /\ last_op.id \notin Keys(calc_arg) /\ NoReference(calc_arg, last_op.id)
        /\ last_op.id \notin Keys(store) /\ NoReference(store, last_op.id)
        /\ Keys(calc_arg) = Keys(family_data) /\ Keys(store) = Keys(family_data)

\* A person has been deleted and two persons, one the parent of the other,
\* remain.
C8_Witness ==
    /\ last_op.kind = "delete"
    /\ \E a, b \in Keys(family_data) : a # b /\ b \in Elems(family_data[a].children)

\* C9 (bidirectional links): in every dataset the submissions build from an
\* empty one, B is in A's children if and only if A is in B's parents.
C9_Bidirectional == Bidirectional(family_data)

\* An edit has left a person with a parent that is itself a child of a third.
C9_Witness ==
    /\ last_op.kind = "edit"
    /\ \E a, b, c \in Keys(family_data) :
          /\ a # c
          /\ b \in Elems(family_data[a].children)
          /\ c \in Elems(family_data[b].children)

\* C10 (mutual marriage): in every dataset the submissions build from an
\* empty one, a person married to (divorced from) B is B's married_to
\* (divorced_from), and B is a key.
C10_MutualMarriage ==
    \A a \in Keys(family_data) :
        /\ family_data[a].married_to # None =>
              /\ Val(family_data[a].married_to) \in Keys(family_data)
              /\ family_data[Val(family_data[a].married_to)].married_to = Some(a)
        /\ family_data[a].divorced_from # None =>
              /\ Val(family_data[a].divorced_from) \in Keys(family_data)
              /\ family_data[Val(family_data[a].divorced_from)].divorced_from = Some(a)

\* C11 (levels are derived): after every submission that changed the
\* dataset, every stored level is an integer and is the level
\* calculate_generation_levels gives on the current relationships with no
\* prior level (the placeholder 0 of the form and the earlier levels leave no
\* trace); the relationships handed to the function were the whole current
\* dataset, and the mapping saved is the recomputed one.
C11_LevelsRecomputed ==
    last_op.kind # "none" =>
        /\ \A p \in Keys(family_data) :
              family_data[p].level # None /\ Val(family_data[p].level) \in Int
        /\ Levels(family_data) =
              Levels(calculate_generation_levels(Unassigned(family_data), order))
        /\ calc_arg = Relationships(family_data)
        /\ store = family_data

\* An edit has left the edited person, placeholder 0 written, two levels
\* below a root.
C11_Witness ==
    /\ last_op.kind = "edit"
    /\ last_op.id \in Keys(family_data)
    /\ Val(family_data[last_op.id].level) = 2
    /\ store = family_data

\* C12 (rejected submissions): a submission of the person form with an
\* empty given name, and one in edit mode with no person selected, shows an
\* error and leaves the dataset, its order, the identifiers produced, the
\* count of recomputations and saves, what was passed to the recomputation,
\* what was saved and the form's mode and selection as they were.
C12_RejectedChangesNothing ==
    [][(\/ SubmitPersonWith("")
        \/ (/\ mode = "Edit Existing Person"
            /\ edit_mode_selected_id = None
            /\ SubmitPerson))
       => /\ error' # ""
          /\ UNCHANGED <<family_data, order, uuids, ops, calc_arg, store, last_op,
                         mode, edit_mode_selected_id>>]_vars

\* An edit of a selected person in a dataset of two persons or more has been
\* rejected for its empty given name.
C12_Witness ==
    /\ error = "Given Name is required to update a person."
    /\ edit_mode_selected_id # None
    /\ Cardinality(Keys(family_data)) >= 2
    /\ ops < MaxOps

\* The mapping is the chain c[1] -> c[2] -> ... -> c[n] over all its keys:
\* c[1] lists no parent, every other person lists the one before it as its
\* only parent, every person but the last lists the one after it as its only
\* child, and the last lists no child.
IsChain(fd, c) ==
    /\ Len(c) = Cardinality(DOMAIN fd)
    /\ Elems(c) = DOMAIN fd
    /\ Len(c) >= 1
    /\ fd[c[1]].parents = <<>>
    /\ fd[c[Len(c)]].children = <<>>
    /\ \A i \in 2..Len(c) : fd[c[i]].parents = <<c[i - 1]>>
    /\ \A i \in 1..(Len(c) - 1) : fd[c[i]].children = <<c[i + 1]>>

\* C13 (chains): when the mapping passed to the call is a linear chain
\* p0 -> p1 -> ... -> pk with bidirectional links and no other edge, the
\* result gives p(i) the level i, whatever the place of the persons in the
\* iteration order of the mapping.
C13_ChainLevels ==
    pc = "done" =>
        \A n \in 1..MaxPeople : \A c \in [1..n -> Keys(input)] :
            IsChain(input, c) =>
                \A i \in 1..n : family_data[c[i]].level = Some(i - 1)

\* The call has returned on the three-person chain 3 -> 1 -> 2, whose head
\* is the last key in iteration order.
C13_Witness ==
    /\ pc = "done"
    /\ IsChain(input, <<3, 1, 2>>)
    /\ Val(family_data[3].level) = 0
    /\ Val(family_data[1].level) = 1
    /\ Val(family_data[2].level) = 2

\* Nobody lists p and p lists nobody.
Isolated(fd, p) ==
    /\ fd[p].parents = <<>>
    /\ fd[p].children = <<>>
    /\ \A q \in DOMAIN fd : p \notin Elems(fd[q].parents) \cup Elems(fd[q].children)

\* No parents or children list holds a key of the mapping.
NoResolvableEdge(fd) ==
    \A p \in DOMAIN fd :
        \A t \in Elems(fd[p].parents) \cup Elems(fd[p].children) : t \notin DOMAIN fd

\* C14 (isolated persons): a person that lists no parent and no child and
\* that nobody lists holds the base level 2 before normalization, so all
\* such persons end at the same final level; when no list of the mapping
\* holds a key of the mapping, every final level is 0.
C14_Isolated ==
    /\ pc = "normalize" =>
          \A p \in Keys(input) : Isolated(input, p) => family_data[p].level = Some(2)
    /\ pc = "done" =>
          /\ \A p, q \in Keys(input) :
                Isolated(input, p) /\ Isolated(input, q) =>
                    family_data[p].level = family_data[q].level
          /\ NoResolvableEdge(input) =>
                \A p \in Keys(input) : family_data[p].level = Some(0)

\* The call has returned on a mapping of three persons with no resolvable
\* edge, two of them isolated and one listing identifiers that are no keys.
C14_Witness ==
    /\ pc = "done"
    /\ Cardinality(Keys(input)) = 3
    /\ NoResolvableEdge(input)
    /\ HasDangling(input)
    /\ Cardinality({p \in Keys(input) : Isolated(input, p)}) = 2
    /\ \A p \in Keys(input) : family_data[p].level = Some(0)

\* Every person lists at least one parent that is a key of the mapping.
NoRootInput(fd) ==
    /\ DOMAIN fd # {}
    /\ \A p \in DOMAIN fd : \E t \in Elems(fd[p].parents) : t \in DOMAIN fd

\* C15 (no-root inputs): when every person lists at least one parent that is
\* a key, nobody is seeded: the worklist is empty when the loop is reached and
\* nothing was ever put on it, the loop is left at once for the fallback,
\* every person holds the base level 2 after the fallback and level 0 in the
\* result, and from each position of the call the next step leads towards
\* the return.
C15_NoRoots ==
    /\ [](NoRootInput(input) =>
            /\ pc # "start" => queue = <<>> /\ enqueued = <<>>
            /\ pc = "loop" => \A p \in Keys(family_data) : family_data[p].level = None
            /\ pc = "normalize" =>
                  \A p \in Keys(family_data) : family_data[p].level = Some(2)
            /\ pc = "done" =>
                  \A p \in Keys(family_data) : family_data[p].level = Some(0)
            /\ pc # "done" => ENABLED (Seed \/ Fallback \/ Finish))
    /\ [][NoRootInput(input) =>
            /\ pc = "start" => pc' = "loop"
            /\ pc = "loop" => pc' = "normalize"
            /\ pc = "normalize" => pc' = "done"]_vars

\* The call has returned on a mapping of three persons with no root in which
\* one person lists an identifier that is no key next to a parent that is.
C15_Witness ==
    /\ pc = "done"
    /\ NoRootInput(input)
    /\ Cardinality(Keys(input)) = 3
    /\ HasDangling(input)
    /\ \A p \in Keys(family_data) : family_data[p].level = Some(0)

\* C16 (root detection and seeding): when the loop is reached and nothing has
\* been taken from the worklist yet, the persons that hold a level are exactly
\* those whose parents list is empty or holds no key of the mapping; each
\* holds the base level 2, the worklist holds each of them once, in the
\* iteration order of the mapping, and every other person is unassigned.
C16_Seeding ==
    pc = "loop" /\ Len(queue) = Len(enqueued) =>
        LET roots == {p \in Keys(family_data) :
                         \/ family_data[p].parents = <<>>
                         \/ \A t \in Elems(family_data[p].parents) :
                                t \notin Keys(family_data)}
        IN /\ \A p \in roots : family_data[p].level = Some(2)
           /\ \A p \in Keys(family_data) \ roots : family_data[p].level = None
           /\ queue = SelectSeq(order, LAMBDA p : p \in roots)
           /\ \A p \in roots : Cardinality({i \in 1..Len(queue) : queue[i] = p}) = 1

\* The loop is reached with two roots seeded, one of them listing only a
\* parent that is no key, and a third person unassigned.
C16_Witness ==
    /\ pc = "loop"
    /\ Len(queue) = Len(enqueued)
    /\ Len(queue) = 2
    /\ Cardinality(Keys(family_data)) = 3
    /\ \E p \in Elems(queue) : family_data[p].parents # <<>>
    /\ \E p \in Keys(family_data) : family_data[p].level = None

\* C17 (no local bound): on each chain of four persons whose last person
\* lists its grandparent as a parent, the result holds a person P and a child
\* C that P lists and that is a key with level(C) > level(P) + 1: the level
\* the grandparent got from its own parent is raised by the max update of the
\* last person's step, and the grandparent's parent is not visited again.
C17_LocalBoundBroken ==
    pc = "done" =>
        \E P \in Keys(family_data) : \E C \in Elems(family_data[P].children) :
            /\ C \in Keys(family_data)
            /\ P \in Elems(family_data[C].parents)
            /\ Val(family_data[C].level) > Val(family_data[P].level) + 1

\* The call has returned on the chain 1 -> 2 -> 3 -> 4 in which 4 lists only
\* 2 as its parent: person 1 ends at level 0 and its child 2 at level 2.
C17_Witness ==
    /\ pc = "done"
    /\ Relationships(input) = Relationships(LateParent(1, 2, 3, 4, <<2>>))
    /\ Val(family_data[1].level) = 0
    /\ Val(family_data[2].level) = 2
    /\ Val(family_data[3].level) = 2
    /\ Val(family_data[4].level) = 3

\* Nobody is their own ancestor along the parents lists.
Acyclic(fd) ==
    \A p \in DOMAIN fd : p \notin Ancestors(fd, p, Cardinality(DOMAIN fd))

\* Two mappings with the same keys and, for each person, the same set of
\* parents, the same set of children and the same spouses.
SameRelations(fd, gd) ==
    /\ DOMAIN fd = DOMAIN gd
    /\ \A p \in DOMAIN fd :
          /\ Elems(fd[p].parents) = Elems(gd[p].parents)
          /\ Elems(fd[p].children) = Elems(gd[p].children)
          /\ Len(fd[p].parents) = Len(gd[p].parents)
          /\ Len(fd[p].children) = Len(gd[p].children)
          /\ fd[p].married_to = gd[p].married_to
          /\ fd[p].divorced_from = gd[p].divorced_from

\* C18 (order dependence): each mapping r -> m -> n -> x, r -> x is
\* bidirectional and acyclic, and the mapping that differs from it only in
\* the order of its relationship lists, iterated in the same order, gets a
\* different final level for some person.
C18_OrderDependence ==
    pc = "done" =>
        LET other == ReversedLists(input) IN
        /\ Bidirectional(input) /\ ~HasDangling(input) /\ Acyclic(input)
        /\ SameRelations(input, other)
        /\ \E p \in Keys(input) :
               family_data[p].level # calculate_generation_levels(other, order)[p].level

\* The call has returned on the mapping with root 2 (2 -> 3 -> 1 -> 4, 2 -> 4)
\* in which 2 lists its children as 4, 3: person 1 ends at level 0, and at
\* level 2 when 2 lists its children as 3, 4.
C18_Witness ==
    /\ pc = "done"
    /\ Relationships(input) = Relationships(Diamond(2, 3, 1, 4))
    /\ Val(family_data[1].level) = 0
    /\ Val(calculate_generation_levels(ReversedLists(input), order)[1].level) = 2
    /\ \A p \in {2, 3, 4} :
          family_data[p].level =
              calculate_generation_levels(ReversedLists(input), order)[p].level

\* The identifiers a person's record refers to.
References(fd, p) ==
    Elems(fd[p].parents) \cup Elems(fd[p].children)
        \cup Elems(fd[p].married_to) \cup Elems(fd[p].divorced_from)

\* C19 (referential integrity): in every dataset the add, edit and delete
\* submissions build from an empty one, and in what they save, every
\* identifier in a person's parents, children, married_to or divorced_from is
\* a key of the dataset.
C19_NoDanglingReference ==
    /\ \A p \in Keys(family_data) : References(family_data, p) \subseteq Keys(family_data)
    /\ \A p \in Keys(store) : References(store, p) \subseteq Keys(store)

\* The last of three persons added has been deleted; the two that stay list
\* no parent and no child, and one of them is married.
C19_Witness ==
    /\ last_op.kind = "delete"
    /\ Cardinality(Keys(family_data)) = 2
    /\ uuids = 3
    /\ \A p \in Keys(family_data) :
          /\ family_data[p].parents = <<>>
          /\ family_data[p].children = <<>>
    /\ \E p \in Keys(family_data) : family_data[p].married_to # None

\* C20 (no self-reference): in every dataset the add, edit and delete
\* submissions build from an empty one, no person's identifier is in that
\* person's own parents, children, married_to or divorced_from.
C20_NoSelfReference ==
    \A p \in Keys(family_data) : p \notin References(family_data, p)

\* A person has been edited while others were there to choose from, and now
\* lists a parent and a spouse.
C20_Witness ==
    /\ last_op.kind = "edit"
    /\ last_op.id \in Keys(family_data)
    /\ Cardinality(Keys(family_data)) = 3
    /\ family_data[last_op.id].parents # <<>>
    /\ family_data[last_op.id].married_to # None

\* The assigned levels of a mapping.
AssignedLevels(fd) == {Val(fd[p].level) : p \in {q \in DOMAIN fd : fd[q].level # None}}

\* C21 (level range): every final level of a call on a mapping of N >= 1
\* persons lies in 0..N-1.  On the way there, every step of the loop gives a
\* person without a level the level of the current person plus or minus one,
\* and moves a level that is held only to a value between the previous value
\* and the current person's level plus or minus one, and never takes a level
\* away; so the assigned levels never span more than the number of persons
\* put on the worklist.
C21_LevelRange ==
    /\ [](pc = "done" /\ Keys(family_data) # {} =>
            \A p \in Keys(family_data) :
                Val(family_data[p].level) \in 0..(Cardinality(Keys(family_data)) - 1))
    /\ [](pc = "loop" /\ enqueued # <<>> =>
            \A u, v \in AssignedLevels(family_data) : v - u <= Len(enqueued) - 1)
    /\ [][pc = "loop" /\ queue # <<>> =>
            LET current_level == Val(family_data[Head(queue)].level) IN
            \A p \in Keys(family_data) :
                LET old == family_data[p].level
                    new == family_data'[p].level
                IN /\ old = None /\ new # None =>
                          Val(new) \in {current_level - 1, current_level + 1}
                   /\ old # None =>
                          /\ new # None
                          /\ Val(new) >= Min2(Val(old), current_level - 1)
                          /\ Val(new) <= Max2(Val(old), current_level + 1)]_vars

\* The call has returned on a mapping of three persons in which two persons
\* list each other as parent, and a person holds the highest level the bound
\* allows.
C21_Witness ==
    /\ pc = "done"
    /\ Cardinality(Keys(family_data)) = MaxPeople
    /\ HasParentCycle(input)
    /\ \E p \in Keys(family_data) : Val(family_data[p].level) = MaxPeople - 1

====
